---- MODULE Spec2Model ----
(***************************************************************************)
(* Model of late-sheet-apps-script.js: the late-sheet batch that scans a   *)
(* spreadsheet tab, selects the rows whose "Email sent" cell is blank,     *)
(* validates the name against the name column's data-validation rule and   *)
(* either marks the row "invalid name" or sends one email and stamps it.   *)
(*                                                                         *)
(* Text is modelled as a sequence of one-character strings so that         *)
(* String.prototype.trim and === are computed, not assumed.  A cell value  *)
(* is a record [t, s, n]: t is the JavaScript type of the value the grid   *)
(* returns ("str", "num", "bool", "date", or "undef" for row[undefined]),  *)
(* s the text of a string, n the number / boolean (0,1) / time of a date.  *)
(***************************************************************************)
EXTENDS Integers, Sequences, FiniteSets

VARIABLES
    sheet,          \* the grid of the year's tab: sheet[1] is the header row
    nameRule,       \* data-validation rule of the name cell in row 2
    currentYear,    \* new Date().getFullYear().toString()
    sheetNames,     \* names of the tabs of the spreadsheet
    now,            \* the clock, in minutes
    lastModified,   \* DriveApp file.getLastUpdated(), in minutes
    run,            \* per invocation: position and locals of the running script
    log,            \* per invocation: what the current/last run did (history)
    prev,           \* log of the run before the current one (history)
    sent,           \* per sheet row: emails dispatched so far (history)
    outbox,         \* MailApp.sendEmail calls that returned (history)
    runs,           \* per invocation slot: number of runs started
    vIn,            \* arguments of the isValidName call under test
    vOut            \* its result

vars == <<sheet, nameRule, currentYear, sheetNames, now, lastModified,
          run, log, prev, sent, outbox, runs, vIn, vOut>>

(***************************************************************************)
(* Bounds                                                                  *)
(***************************************************************************)
MaxRows == 2        \* data rows of a table
MaxRuns == 2        \* sequential invocations
MaxTime == 15       \* the clock stops here
MaxNameLen == 2     \* length of the identities tried on isValidName
MaxLiveRows == 1    \* data rows of a table when runs repeat for ever

(***************************************************************************)
(* Text                                                                    *)
(***************************************************************************)
S_Name == <<"N","a","m","e">>
S_Date == <<"D","a","t","e">>
S_Violation == <<"V","i","o","l","a","t","i","o","n">>
S_HowLate == <<"H","o","w"," ","L","a","t","e","?">>
S_Notes == <<"N","o","t","e","s">>
S_EmailSent == <<"E","m","a","i","l"," ","s","e","n","t">>
S_CoachNotified == <<"C","o","a","c","h"," ","n","o","t","i","f","i","e","d">>
S_notes == <<"n","o","t","e","s">>
S_InvalidName == <<"i","n","v","a","l","i","d"," ","n","a","m","e">>
S_Member == <<"M","e","m","b","e","r">>
S_AtDomain == <<"@","d","i","r","e","c","t","a","c","t","i","o","n",
                "e","v","e","r","y","w","h","e","r","e",".","c","o","m">>
S_Alice == <<"A","l","i","c","e">>
S_AliceSp == <<" ","A","l","i","c","e"," ">>
S_Bob == <<"B","o","b">>
S_Carol == <<"C","a","r","o","l">>
S_true == <<"t","r","u","e">>
S_false == <<"f","a","l","s","e">>
S_DateText == <<"T","h","u"," ","J","a","n"," ","0","1">>
Digits == <<"0","1","2","3","4","5","6","7","8","9">>

\* the characters String.prototype.trim strips
IsWhitespace(c) == c \in {" ", "\t", "\n"}

RECURSIVE TrimStart(_)
TrimStart(s) ==
    IF s = <<>> THEN <<>>
    ELSE IF IsWhitespace(Head(s)) THEN TrimStart(Tail(s)) ELSE s

RECURSIVE TrimEnd(_)
TrimEnd(s) ==
    IF s = <<>> THEN <<>>
    ELSE IF IsWhitespace(s[Len(s)]) THEN TrimEnd(SubSeq(s, 1, Len(s) - 1)) ELSE s

Trim(s) == TrimEnd(TrimStart(s))

(***************************************************************************)
(* Cell values                                                             *)
(***************************************************************************)
Str(s) == [t |-> "str", s |-> s, n |-> 0]
Num(n) == [t |-> "num", s |-> <<>>, n |-> n]
Bool(b) == [t |-> "bool", s |-> <<>>, n |-> IF b THEN 1 ELSE 0]
DateVal(d) == [t |-> "date", s |-> <<>>, n |-> d]
Undefined == [t |-> "undef", s |-> <<>>, n |-> 0]
Empty == Str(<<>>)

\* JavaScript !v
Falsy(v) ==
    \/ v.t = "undef"
    \/ v.t = "str" /\ v.s = <<>>
    \/ v.t = "num" /\ v.n = 0
    \/ v.t = "bool" /\ v.n = 0

RECURSIVE NatDigits(_)
NatDigits(n) ==
    IF n < 10 THEN <<Digits[n + 1]>>
    ELSE NatDigits(n \div 10) \o <<Digits[(n % 10) + 1]>>

\* v.toString() of a defined value
toString(v) ==
    CASE v.t = "str" -> v.s
      [] v.t = "num" -> NatDigits(v.n)
      [] v.t = "bool" -> IF v.n = 1 THEN S_true ELSE S_false
      [] OTHER -> S_DateText

\* !v || v.toString().trim() === ''
IsBlank(v) == Falsy(v) \/ Trim(toString(v)) = <<>>

(***************************************************************************)
(* Schema: const columns, readColumnData                                   *)
(***************************************************************************)
Keys == <<"name", "date", "violation", "howLate", "notes", "emailSent", "coachNotified">>
KeySet == {Keys[i] : i \in 1..Len(Keys)}

columns == [name |-> S_Name, date |-> S_Date, violation |-> S_Violation,
            howLate |-> S_HowLate, notes |-> S_Notes, emailSent |-> S_EmailSent,
            coachNotified |-> S_CoachNotified]

NoIndex == -1   \* columnIndices[key] === undefined

\* headerRow.forEach: the last header cell that is === the label wins; 0-based
ColumnIndexOf(headerRow, label) ==
    LET hits == {i \in 1..Len(headerRow) : headerRow[i] = Str(label)}
    IN IF hits = {} THEN NoIndex
       ELSE (CHOOSE i \in hits : \A j \in hits : j <= i) - 1

ColumnIndices(headerRow) == [k \in KeySet |-> ColumnIndexOf(headerRow, columns[k])]

MissingColumnsMutSkipNotes(ci) == {k \in KeySet \ {"notes"} : ci[k] = NoIndex}
MissingColumns(ci) == {k \in KeySet : ci[k] = NoIndex}

Null == [kind |-> "null", cv |-> "null", vals |-> <<>>]

\* readColumnData(sheet): Null, or the indices, the grid and the name rule.
\* ruleThrows: getDataValidation() threw, which leaves nameValidation null.
ReadColumnData(sh, rule, ruleThrows) ==
    IF Len(sh) < 2 THEN [ok |-> FALSE]
    ELSE LET ci == ColumnIndices(sh[1])
         IN IF MissingColumns(ci) # {} THEN [ok |-> FALSE]
            ELSE [ok |-> TRUE, columnIndices |-> ci, values |-> sh,
                  nameValidation |-> IF ruleThrows THEN Null ELSE rule]

(***************************************************************************)
(* isValidName                                                             *)
(* A rule is [kind, cv, vals].  kind is getCriteriaType(); cv says what    *)
(* getCriteriaValues() returned: "null" (nothing), "len0" (an empty        *)
(* array), "falsy0" (a first element that is null, undefined or ''),       *)
(* "present" (a first element that is an object: the array of allowed      *)
(* values of a list rule, empty or not, or the range of a range rule).     *)
(* vals is the list of allowed values, or the flat values of the range.    *)
(***************************************************************************)
\* criteriaValues && criteriaValues.length > 0 && criteriaValues[0]
HasCriteria(validation) == validation.cv = "present"

SomeEqualMutNoTrim(vals, nameStr) ==
    \E i \in 1..Len(vals) : toString(vals[i]) = nameStr
\* vals.some(val => val.toString().trim() === nameStr)
SomeEqual(vals, nameStr) ==
    \E i \in 1..Len(vals) : Trim(toString(vals[i])) = nameStr

isValidNameMutNoBlankCheck(validation, nameValue, critThrows, rangeThrows) ==
    IF validation = Null THEN TRUE
    ELSE IF critThrows THEN TRUE
    ELSE IF validation.kind \in {"VALUE_IN_LIST", "VALUE_IN_RANGE"}
              /\ HasCriteria(validation)
              /\ ~(validation.kind = "VALUE_IN_RANGE" /\ rangeThrows)
         THEN SomeEqual(validation.vals, Trim(toString(nameValue)))
    ELSE TRUE

\* critThrows: getCriteriaType()/getCriteriaValues() threw;
\* rangeThrows: spreadsheet.getRange(rangeA1) or getValues() threw.
isValidName(validation, nameValue, critThrows, rangeThrows) ==
    IF Falsy(nameValue) \/ Trim(toString(nameValue)) = <<>> THEN FALSE
    ELSE IF validation = Null THEN TRUE
    ELSE IF critThrows THEN TRUE
    ELSE IF validation.kind = "VALUE_IN_LIST"
         THEN IF HasCriteria(validation)
              THEN SomeEqual(validation.vals, Trim(toString(nameValue)))
              ELSE TRUE
    ELSE IF validation.kind = "VALUE_IN_RANGE"
         THEN IF HasCriteria(validation)
              THEN IF rangeThrows THEN TRUE
                   ELSE SomeEqual(validation.vals, Trim(toString(nameValue)))
              ELSE TRUE
    ELSE TRUE

(***************************************************************************)
(* Row selection of processSheet                                           *)
(***************************************************************************)
\* row[columnIndices[key]], undefined when the key has no column
CellOf(row, ci, k) == IF ci[k] = NoIndex THEN Undefined ELSE row[ci[k] + 1]

RowData(values, ci, i) ==
    [rowNumber |-> i + 1, data |-> [k \in KeySet |-> CellOf(values[i + 1], ci, k)]]

\* for (let i = 1; i < values.length; i++) ... unprocessedRows.push(rowData)
RECURSIVE SelectFrom(_, _, _)
SelectFrom(values, ci, i) ==
    IF i >= Len(values) THEN <<>>
    ELSE IF IsBlank(CellOf(values[i + 1], ci, "emailSent"))
         THEN <<RowData(values, ci, i)>> \o SelectFrom(values, ci, i + 1)
         ELSE SelectFrom(values, ci, i + 1)

UnprocessedRowsMutTwice(values, ci) == SelectFrom(values, ci, 1) \o SelectFrom(values, ci, 1)
UnprocessedRows(values, ci) == SelectFrom(values, ci, 1)

(***************************************************************************)
(* Recency guard                                                           *)
(***************************************************************************)
RecencyWindow == 10     \* 10 * 60 * 1000 ms, in minutes

\* readable = FALSE: DriveApp.getFileById / getLastUpdated threw
wasSheetModifiedRecentlyMutFailClosed(readable, lastUpdated, nowT) ==
    IF readable THEN lastUpdated > nowT - RecencyWindow ELSE TRUE
wasSheetModifiedRecentlyMutInclusive(readable, lastUpdated, nowT) ==
    IF readable THEN lastUpdated >= nowT - RecencyWindow ELSE FALSE
wasSheetModifiedRecently(readable, lastUpdated, nowT) ==
    IF readable THEN lastUpdated > nowT - RecencyWindow ELSE FALSE

(***************************************************************************)
(* sendLateSheetEmail: the local part of the address                       *)
(***************************************************************************)
\* const name = data.name || 'Member'; `${name}@directactioneverywhere.com`
EmailLocalPart(data) ==
    IF Falsy(data.name) THEN S_Member ELSE toString(data.name)

\* `${name}@directactioneverywhere.com`
EmailAddress(data) == EmailLocalPart(data) \o S_AtDomain

(***************************************************************************)
(* Initial tables                                                          *)
(***************************************************************************)
Procs == {1, 2}
RowNums == 2..(MaxRows + 1)     \* 1-based sheet rows of the data rows

StdHeader == <<Str(S_Name), Str(S_Date), Str(S_Violation), Str(S_HowLate),
               Str(S_Notes), Str(S_EmailSent), Str(S_CoachNotified)>>

\* layout "std": name in column A, "Email sent" in column F; "swap": exchanged
Headers ==
    { [layout |-> "std", header |-> StdHeader],
      [layout |-> "swap",
       header |-> [StdHeader EXCEPT ![1] = Str(S_EmailSent), ![6] = Str(S_Name)]],
      [layout |-> "std", header |-> [StdHeader EXCEPT ![5] = Str(S_notes)]] }

MkRow(layout, nm, es) ==
    IF layout = "std"
    THEN <<nm, DateVal(0), Str(<<"x">>), Num(5), Empty, es, Empty>>
    ELSE <<es, DateVal(0), Str(<<"x">>), Num(5), Empty, nm, Empty>>

\* <<name cell, "Email sent" cell>> of a data row
RowKinds ==
    { <<Str(S_AliceSp), Empty>>,
      <<Str(S_Carol), Str(<<" ">>)>>,
      <<Empty, Empty>>,
      <<Str(S_Alice), DateVal(0)>> }

Tables(layout) ==
    UNION { { <<>> }, 
            UNION { { [i \in 1..n |-> MkRow(layout, f[i][1], f[i][2])] :
                        f \in [1..n -> RowKinds] } : n \in 1..MaxRows } }

ListRule(vals) == [kind |-> "VALUE_IN_LIST", cv |-> "present", vals |-> vals]
RangeRule(vals) == [kind |-> "VALUE_IN_RANGE", cv |-> "present", vals |-> vals]

Rules ==
    { Null,
      ListRule(<<Str(S_Alice), Str(S_Bob)>>),
      RangeRule(<<Str(S_AliceSp), Str(S_Bob)>>) }

\* <<current year, names of the tabs>>
Calendars == { <<"2025", {"2025"}>>, <<"2026", {"2025"}>>, <<"2026", {"2025", "2026"}>> }

(***************************************************************************)
(* Run state                                                               *)
(***************************************************************************)
IdleRun ==
    [pc |-> "idle", values |-> <<>>,
     columnIndices |-> [k \in KeySet |-> NoIndex], nameValidation |-> Null,
     unprocessedRows |-> <<>>, k |-> 0]

NoRowLog == [valid |-> "none", sends |-> 0, sendThrows |-> 0, writes |-> 0,
             writeThrows |-> 0, wrote |-> Undefined]

\* what the recency guard was asked: was the timestamp readable, and the times
NoGuard == [seen |-> FALSE, readable |-> FALSE, lastUpdated |-> 0, at |-> 0]

\* before: the table as the run read it; interrupted: the run was cut short
EmptyLog ==
    [guard |-> NoGuard, schema |-> "none", before |-> <<>>, selected |-> <<>>,
     rows |-> [r \in RowNums |-> NoRowLog], interrupted |-> FALSE]

Active(p) == run[p].pc \notin {"idle", "done", "skipped", "killed"}

\* the script returns: its locals are gone
Finished(r, pc) == [IdleRun EXCEPT !.pc = pc]

\* forEach moves on to the next element of unprocessedRows
NextRow(r) ==
    IF r.k >= Len(r.unprocessedRows) THEN Finished(r, "done")
    ELSE [r EXCEPT !.pc = "row", !.k = r.k + 1]

\* return after the row was marked invalid
AfterMarkMutFallThrough(r) == [r EXCEPT !.pc = "send"]
AfterMark(r) == NextRow(r)

\* the row was stamped: the forEach callback returns
AfterStamp(r) == NextRow(r)

\* catch (error) { Logger.log(...) }: the forEach callback returns
AfterErrorMutAbort(r) == Finished(r, "done")
AfterErrorMutStamp(r) == IF r.pc = "send" THEN [r EXCEPT !.pc = "stamp"] ELSE NextRow(r)
AfterError(r) == NextRow(r)

\* the table after catch (error) { Logger.log(...) }: the catch writes nothing
SheetAfterCatchMutMark(sh, rn, ci) ==
    [sh EXCEPT ![rn][ci.emailSent + 1] = Str(<<"e", "r", "r", "o", "r">>)]
SheetAfterCatch(sh, rn, ci) == sh

RowInfo(p) == run[p].unprocessedRows[run[p].k]

\* the column argument of sheet.getRange(rowInfo.rowNumber, columnIndices.emailSent + 1)
EmailSentColumnMutNoPlusOne(ci) == ci.emailSent
EmailSentColumn(ci) == ci.emailSent + 1

NoCall == [validation |-> Null, nameValue |-> Empty,
           critThrows |-> FALSE, rangeThrows |-> FALSE]

\* what the next run remembers of a run: did it reach the forEach, the rows
\* whose email or cell write threw, was it cut short, and the rows it notified
NoPrev == [ran |-> FALSE, failed |-> {}, interrupted |-> FALSE, notified |-> {}]
Summary(l) ==
    [ran |-> l.schema = "ok",
     failed |-> {r \in RowNums : l.rows[r].sendThrows + l.rows[r].writeThrows > 0},
     interrupted |-> l.interrupted,
     notified |-> {r \in RowNums : l.rows[r].sends > 0}]

\* the emails of one row are counted up to the most a bounded specification
\* can send: one in each run
SentCap == MaxRuns

InitCommon ==
    /\ now = 0
    /\ lastModified = 0
    /\ run = [p \in Procs |-> IdleRun]
    /\ log = [p \in Procs |-> EmptyLog]
    /\ prev = NoPrev
    /\ sent = [r \in RowNums |-> 0]
    /\ outbox = {}
    /\ runs = [p \in Procs |-> 0]

\* the exchanged layout is tried with no rule on the name column
Init ==
    /\ \E h \in Headers : \E t \in Tables(h.layout) :
          /\ sheet = <<h.header>> \o t
          /\ nameRule \in IF h.layout = "swap" THEN {Null} ELSE Rules
    /\ \E c \in Calendars : currentYear = c[1] /\ sheetNames = c[2]
    /\ InitCommon
    /\ vIn = NoCall
    /\ vOut = "off"

tableVars == <<sheet, nameRule, currentYear, sheetNames>>
validVars == <<vIn, vOut>>

(***************************************************************************)
(* Entry points                                                            *)
(***************************************************************************)
\* processLateSheetIfNotModifiedRecently is triggered
EnterGuarded(p, limit) ==
    /\ ~Active(p) /\ runs[p] < limit
    /\ runs' = [runs EXCEPT ![p] = @ + 1]
    /\ run' = [run EXCEPT ![p] = [IdleRun EXCEPT !.pc = "guard"]]
    /\ prev' = Summary(log[p])
    /\ log' = [log EXCEPT ![p] = EmptyLog]
    /\ UNCHANGED <<tableVars, now, lastModified, sent, outbox, validVars>>

\* processLateSheetNow is triggered
EnterNow(p, limit) ==
    /\ ~Active(p) /\ runs[p] < limit
    /\ runs' = [runs EXCEPT ![p] = @ + 1]
    /\ run' = [run EXCEPT ![p] = [IdleRun EXCEPT !.pc = "late"]]
    /\ prev' = Summary(log[p])
    /\ log' = [log EXCEPT ![p] = EmptyLog]
    /\ UNCHANGED <<tableVars, now, lastModified, sent, outbox, validVars>>

\* processLateSheetNow is triggered again and again: runs are counted up to limit
EnterRepeated(p, limit) ==
    /\ ~Active(p)
    /\ runs' = [runs EXCEPT ![p] = IF @ < limit THEN @ + 1 ELSE @]
    /\ run' = [run EXCEPT ![p] = [IdleRun EXCEPT !.pc = "late"]]
    /\ log' = [log EXCEPT ![p] = EmptyLog]
    /\ UNCHANGED <<tableVars, now, lastModified, prev, sent, outbox, validVars>>

\* if (wasSheetModifiedRecently(spreadsheet)) return; processLateSheet(spreadsheet)
GuardStep(p) ==
    /\ run[p].pc = "guard"
    /\ \E readable \in BOOLEAN :
         LET recent == wasSheetModifiedRecently(readable, lastModified, now)
         IN /\ run' = [run EXCEPT ![p] = IF recent THEN Finished(@, "skipped")
                                         ELSE [@ EXCEPT !.pc = "late"]]
            /\ log' = [log EXCEPT ![p].guard =
                          [seen |-> TRUE, readable |-> readable,
                           lastUpdated |-> lastModified, at |-> now]]
    /\ UNCHANGED <<tableVars, now, lastModified, prev, sent, outbox, runs, validVars>>

\* processLateSheet: the year gate and the lookup of the year's tab
ProcessLateSheet(p) ==
    /\ run[p].pc = "late"
    /\ run' = [run EXCEPT ![p] =
                 IF currentYear = "2025" \/ currentYear \notin sheetNames
                 THEN Finished(@, "done")
                 ELSE [@ EXCEPT !.pc = "sheet"]]
    /\ UNCHANGED <<tableVars, now, lastModified, log, prev, sent, outbox, runs, validVars>>

\* processSheet up to the forEach: readColumnData and the selection loop
ProcessSheetRead(p) ==
    /\ run[p].pc = "sheet"
    /\ \E ruleThrows \in BOOLEAN :
         LET cd == ReadColumnData(sheet, nameRule, ruleThrows)
         IN IF ~cd.ok
            THEN /\ run' = [run EXCEPT ![p] = Finished(@, "done")]
                 /\ log' = [log EXCEPT ![p].schema = "fail"]
            ELSE LET rows == UnprocessedRows(cd.values, cd.columnIndices)
                     r1 == [run[p] EXCEPT !.values = cd.values,
                                          !.columnIndices = cd.columnIndices,
                                          !.nameValidation = cd.nameValidation,
                                          !.unprocessedRows = rows,
                                          !.k = 0]
                 IN /\ run' = [run EXCEPT ![p] = NextRow(r1)]
                    /\ log' = [log EXCEPT ![p].schema = "ok",
                                          ![p].before = cd.values,
                                          ![p].selected =
                                              [i \in 1..Len(rows) |-> rows[i].rowNumber]]
    /\ UNCHANGED <<tableVars, now, lastModified, prev, sent, outbox, runs, validVars>>

(***************************************************************************)
(* The forEach body of processSheet, one step per external call            *)
(***************************************************************************)
\* isValidName(nameValidation, nameValue, spreadsheet)
ValidateRow(p) ==
    /\ run[p].pc = "row"
    /\ \E critThrows \in BOOLEAN, rangeThrows \in BOOLEAN :
         LET ok == isValidName(run[p].nameValidation, RowInfo(p).data.name,
                               critThrows, rangeThrows)
         IN /\ run' = [run EXCEPT ![p].pc = IF ok THEN "send" ELSE "mark"]
            /\ log' = [log EXCEPT ![p].rows[RowInfo(p).rowNumber].valid =
                                      IF ok THEN "yes" ELSE "no"]
    /\ UNCHANGED <<tableVars, now, lastModified, prev, sent, outbox, runs, validVars>>

\* sheet.getRange(rowNumber, column).setValue(v), followed by what the forEach
\* callback does next; a throw (throws, or getRange refusing a column below 1)
\* is caught by the catch of the callback
SetEmailSent(p, v, throws, after) ==
    LET rn == RowInfo(p).rowNumber
        col == EmailSentColumn(run[p].columnIndices)
    IN IF throws \/ col < 1
       THEN /\ log' = [log EXCEPT ![p].rows[rn].writeThrows = @ + 1]
            /\ run' = [run EXCEPT ![p] = AfterError(@)]
            /\ sheet' = SheetAfterCatch(sheet, rn, run[p].columnIndices)
            /\ UNCHANGED lastModified
       ELSE /\ sheet' = [sheet EXCEPT ![rn][col] = v]
            /\ lastModified' = now
            /\ log' = [log EXCEPT ![p].rows[rn].writes = @ + 1,
                                  ![p].rows[rn].wrote = v]
            /\ run' = [run EXCEPT ![p] = after]

\* setValue("invalid name"); return
MarkInvalid(p) ==
    /\ run[p].pc = "mark"
    /\ \E throws \in BOOLEAN :
         SetEmailSent(p, Str(S_InvalidName), throws, AfterMark(run[p]))
    /\ UNCHANGED <<nameRule, currentYear, sheetNames, now, prev, sent, outbox,
                   runs, validVars>>

\* sendLateSheetEmail(rowInfo.data): MailApp.sendEmail returns or throws; sent
\* counts the emails of a row up to SentCap, which bounded runs never reach
SendEmail(p) ==
    /\ run[p].pc = "send"
    /\ LET rn == RowInfo(p).rowNumber
       IN \E throws \in BOOLEAN :
            IF throws
            THEN /\ log' = [log EXCEPT ![p].rows[rn].sendThrows = @ + 1]
                 /\ run' = [run EXCEPT ![p] = AfterError(@)]
                 /\ sheet' = SheetAfterCatch(sheet, rn, run[p].columnIndices)
                 /\ UNCHANGED <<sent, outbox>>
            ELSE /\ log' = [log EXCEPT ![p].rows[rn].sends = @ + 1]
                 /\ sent' = [sent EXCEPT ![rn] = IF @ < SentCap THEN @ + 1 ELSE @]
                 /\ outbox' = outbox \cup
                        {[row |-> rn, name |-> RowInfo(p).data.name,
                          to |-> EmailAddress(RowInfo(p).data)]}
                 /\ run' = [run EXCEPT ![p].pc = "stamp"]
                 /\ UNCHANGED sheet
    /\ UNCHANGED <<nameRule, currentYear, sheetNames, now, lastModified, prev,
                   runs, validVars>>

\* setValue(new Date()) after the email was sent
StampRow(p) ==
    /\ run[p].pc = "stamp"
    /\ \E throws \in BOOLEAN :
         SetEmailSent(p, DateVal(now), throws, AfterStamp(run[p]))
    /\ UNCHANGED <<nameRule, currentYear, sheetNames, now, prev, sent, outbox,
                   runs, validVars>>

(***************************************************************************)
(* The execution is ended between two of its calls                         *)
(***************************************************************************)
\* the runtime stops the script where it stands: nothing more is called, the
\* locals are gone, what was sent and written stays
Crash(p) ==
    /\ Active(p)
    /\ run' = [run EXCEPT ![p] = Finished(@, "killed")]
    /\ log' = [log EXCEPT ![p].interrupted = TRUE]
    /\ UNCHANGED <<tableVars, now, lastModified, prev, sent, outbox, runs, validVars>>

(***************************************************************************)
(* Time passes between runs                                                *)
(***************************************************************************)
TickSteps == {5, 10}

Tick(d) ==
    /\ \A p \in Procs : ~Active(p)
    /\ now + d <= MaxTime
    /\ now' = now + d
    /\ UNCHANGED <<tableVars, lastModified, run, log, prev, sent, outbox, runs, validVars>>

(***************************************************************************)
(* Specifications                                                          *)
(***************************************************************************)
\* one trigger at a time: every run starts after the run before it returned
Next ==
    \/ EnterNow(1, MaxRuns)
    \/ ProcessLateSheet(1)
    \/ ProcessSheetRead(1)
    \/ ValidateRow(1)
    \/ MarkInvalid(1)
    \/ SendEmail(1)
    \/ StampRow(1)

Spec == Init /\ [][Next]_vars

\* guarded and unconditional runs with time passing between them, no name rule
InitGuard ==
    /\ \E t \in Tables("std") : sheet = <<StdHeader>> \o t
    /\ \A i \in 2..Len(sheet) : sheet[i][1] # Str(S_Carol)
    /\ nameRule = Null
    /\ currentYear = "2026"
    /\ sheetNames = {"2025", "2026"}
    /\ InitCommon
    /\ vIn = NoCall
    /\ vOut = "off"

NextGuard ==
    \/ \E d \in TickSteps : Tick(d)
    \/ EnterGuarded(1, MaxRuns)
    \/ GuardStep(1)
    \/ Next

SpecGuard == InitGuard /\ [][NextGuard]_vars

\* sequential runs, any of which may be ended between two of its calls
InitCrash ==
    /\ \E t \in Tables("std") : sheet = <<StdHeader>> \o t
    /\ nameRule = ListRule(<<Str(S_Alice), Str(S_Bob)>>)
    /\ currentYear = "2026"
    /\ sheetNames = {"2025", "2026"}
    /\ InitCommon
    /\ vIn = NoCall
    /\ vOut = "off"

NextCrash ==
    \/ Crash(1)
    \/ Next

SpecCrash == InitCrash /\ [][NextCrash]_vars

\* sequential runs over "Email sent" cells of every kind getValues can return
SelectKinds ==
    { <<Str(S_Alice), es>> :
         es \in {Empty, Str(<<" ">>), Num(0), Bool(FALSE), Num(5), DateVal(0),
                 Str(S_InvalidName)} }
    \cup { <<Empty, Empty>> }

TablesOf(layout, kinds) ==
    UNION { { <<>> },
            UNION { { [i \in 1..n |-> MkRow(layout, f[i][1], f[i][2])] :
                        f \in [1..n -> kinds] } : n \in 1..MaxRows } }

InitSelect ==
    /\ \E t \in TablesOf("std", SelectKinds) : sheet = <<StdHeader>> \o t
    /\ nameRule = Null
    /\ currentYear = "2026"
    /\ sheetNames = {"2025", "2026"}
    /\ InitCommon
    /\ vIn = NoCall
    /\ vOut = "off"

SpecSelect == InitSelect /\ [][Next]_vars

\* unconditional runs triggered for ever; a trigger that is due fires, a run
\* takes its next step, and for every row a dispatch and a cell write that are
\* attempted again and again succeed at last
InitLive ==
    /\ \E t \in Tables("std") : Len(t) <= MaxLiveRows /\ sheet = <<StdHeader>> \o t
    /\ nameRule = Null
    /\ currentYear = "2026"
    /\ sheetNames = {"2025", "2026"}
    /\ InitCommon
    /\ vIn = NoCall
    /\ vOut = "off"

NextLive ==
    \/ EnterRepeated(1, MaxRuns)
    \/ ProcessLateSheet(1)
    \/ ProcessSheetRead(1)
    \/ ValidateRow(1)
    \/ MarkInvalid(1)
    \/ SendEmail(1)
    \/ StampRow(1)

\* the call made for sheet row r returned
SendReturns(r) ==
    run[1].pc = "send" /\ RowInfo(1).rowNumber = r /\ SendEmail(1) /\ run'[1].pc = "stamp"
WriteReturns(r) ==
    /\ run[1].pc \in {"mark", "stamp"} /\ RowInfo(1).rowNumber = r
    /\ MarkInvalid(1) \/ StampRow(1)
    /\ sheet' # sheet

LiveRowNums == 2..(MaxLiveRows + 1)

SpecLive ==
    /\ InitLive
    /\ [][NextLive]_vars
    /\ WF_vars(NextLive)
    /\ \A r \in LiveRowNums : SF_vars(SendReturns(r)) /\ SF_vars(WriteReturns(r))

\* two triggers fire while the other's run may still be in progress
NextOverlap ==
    \E p \in Procs :
        \/ EnterNow(p, 1)
        \/ ProcessLateSheet(p)
        \/ ProcessSheetRead(p)
        \/ ValidateRow(p)
        \/ MarkInvalid(p)
        \/ SendEmail(p)
        \/ StampRow(p)

InitOverlap ==
    /\ \E t \in Tables("std") : sheet = <<StdHeader>> \o t
    /\ nameRule = ListRule(<<Str(S_Alice), Str(S_Bob)>>)
    /\ currentYear = "2026"
    /\ sheetNames = {"2025", "2026"}
    /\ InitCommon
    /\ vIn = NoCall
    /\ vOut = "off"

SpecOverlap == InitOverlap /\ [][NextOverlap]_vars

(***************************************************************************)
(* isValidName on its own                                                  *)
(***************************************************************************)
Alphabet == {"A", "a", " "}

Texts == UNION { [1..n -> Alphabet] : n \in 0..MaxNameLen }

NameValues ==
    { Str(s) : s \in Texts } \cup
    { Str(S_Alice), Str(S_AliceSp), Str(S_Carol), Str(S_Bob),
      Num(0), Num(5), Bool(TRUE), Bool(FALSE) }

ValueLists ==
    { <<>>,
      <<Str(<<"A">>)>>,
      <<Str(<<" ", "A">>), Num(5)>>,
      <<Num(0), Str(S_false)>>,
      <<Str(<<"a">>), Str(<<"A", " ">>), Bool(TRUE)>>,
      <<Str(S_Alice), Str(S_Bob)>> }

RuleKinds == {"VALUE_IN_LIST", "VALUE_IN_RANGE", "NUMBER_BETWEEN"}

ValidationRules ==
    {Null} \cup
    { [kind |-> kd, cv |-> c, vals |-> <<>>] :
         kd \in RuleKinds, c \in {"null", "len0", "falsy0"} } \cup
    { [kind |-> kd, cv |-> "present", vals |-> vs] :
         kd \in RuleKinds, vs \in ValueLists }

InitValid ==
    /\ sheet = <<StdHeader>>
    /\ nameRule = Null
    /\ currentYear = "2026"
    /\ sheetNames = {"2026"}
    /\ InitCommon
    /\ vIn \in [validation : ValidationRules, nameValue : NameValues,
                critThrows : BOOLEAN, rangeThrows : BOOLEAN]
    /\ vOut = "none"

CallIsValidName ==
    /\ vOut = "none"
    /\ vOut' = IF isValidName(vIn.validation, vIn.nameValue,
                              vIn.critThrows, vIn.rangeThrows)
               THEN "true" ELSE "false"
    /\ UNCHANGED <<tableVars, now, lastModified, run, log, prev, sent, outbox, runs, vIn>>

NextValid == CallIsValidName

SpecValid == InitValid /\ [][NextValid]_vars

(***************************************************************************)
(* What the claims speak of                                                *)
(***************************************************************************)
\* the "Email sent" cell of sheet row r, found by its header label
EmailSentCell(r) ==
    sheet[r][CHOOSE c \in 1..Len(sheet[1]) : sheet[1][c] = Str(S_EmailSent)]

\* a cell holding nothing but whitespace
OnlyWhitespace(v) == v.t = "str" /\ \A i \in 1..Len(v.s) : v.s[i] \in {" ", "\t", "\n"}

\* some declared label has no exactly-equal cell in the header row
HeaderMissesLabel ==
    \E k \in KeySet : \A c \in 1..Len(sheet[1]) : sheet[1][c] # Str(columns[k])

Selected(p) == {log[p].selected[i] : i \in 1..Len(log[p].selected)}

NoRowTouched(p) == \A r \in RowNums : log[p].rows[r] = NoRowLog

(***************************************************************************)
(* C1  At-most-once across sequential runs: over any sequence of           *)
(* non-overlapping runs in which any dispatch or any cell write may fail   *)
(* and nobody clears a cell, no row gets more than one notification.       *)
(* The code sends first and stamps afterwards: when the stamp throws, the  *)
(* row stays blank and the next run sends again.                           *)
(***************************************************************************)
C1_AtMostOnceSequential == \A r \in RowNums : sent[r] <= 1

(***************************************************************************)
(* C2  Idempotence: when the batch ran and is run again with no edit in    *)
(* between, the second run dispatches no notification.  As stated it       *)
(* fails: a row whose dispatch or write threw in the first run is still    *)
(* blank and is notified by the second.                                    *)
(***************************************************************************)
C2_SecondRunSendsNothing ==
    prev.ran => \A r \in RowNums : log[1].rows[r].sends = 0

\* C2 as amended: the second run dispatches only for rows whose dispatch or
\* write threw in the first run; none when nothing threw in the first run.
C2_SecondRunSendsOnlyFailedRows ==
    prev.ran => \A r \in RowNums : log[1].rows[r].sends > 0 => r \in prev.failed

\* a second run that found nothing to send after a first run that sent
C2_Witness ==
    /\ prev.ran /\ prev.failed = {}
    /\ run[1].pc = "done" /\ log[1].schema = "ok"
    /\ \E r \in RowNums : sent[r] = 1
    /\ \A r \in RowNums : log[1].rows[r].sends = 0

(***************************************************************************)
(* C3  At-most-once under overlapping invocations: when two runs           *)
(* interleave, no row gets more than one notification in total.  As        *)
(* stated it fails: both runs can select the row before either stamps it.  *)
(***************************************************************************)
C3_AtMostOnceOverlapping ==
    \A r \in RowNums : log[1].rows[r].sends + log[2].rows[r].sends <= 1

\* C3 as amended: each invocation dispatches at most one notification per row,
\* so two overlapping invocations dispatch at most two for a row.
C3_AtMostOncePerInvocation ==
    \A r \in RowNums :
        /\ \A p \in Procs : log[p].rows[r].sends <= 1
        /\ sent[r] <= 2

\* a row notified by both invocations
C3_Witness ==
    \E r \in RowNums : log[1].rows[r].sends = 1 /\ log[2].rows[r].sends = 1

(***************************************************************************)
(* C4  For every unprocessed row whose identity the validator rejects,     *)
(* the run writes "invalid name" into the row's "Email sent" cell and      *)
(* dispatches no notification for the row.  As stated it fails when the    *)
(* write of the sentinel throws: the cell stays as it was.                 *)
(***************************************************************************)
C4_RejectedRowMarked ==
    run[1].pc = "done" =>
        \A r \in Selected(1) :
            log[1].rows[r].valid = "no" =>
                /\ EmailSentCell(r) = Str(S_InvalidName)
                /\ log[1].rows[r].sends = 0

\* C4 as amended: the run dispatches nothing for a rejected row and writes the
\* sentinel into its cell, unless that one write throws, and then the cell is
\* left as it was (blank).
C4_RejectedRowMarkedUnlessWriteThrows ==
    run[1].pc = "done" =>
        \A r \in Selected(1) :
            log[1].rows[r].valid = "no" =>
                /\ log[1].rows[r].sends = 0 /\ log[1].rows[r].sendThrows = 0
                /\ log[1].rows[r].writes + log[1].rows[r].writeThrows = 1
                /\ log[1].rows[r].writes = 1 => EmailSentCell(r) = Str(S_InvalidName)
                /\ log[1].rows[r].writeThrows = 1 =>
                       Falsy(EmailSentCell(r)) \/ OnlyWhitespace(EmailSentCell(r))

\* under list{Alice, Bob} the row of Carol ends marked, never notified
C4_Witness ==
    /\ run[1].pc = "done"
    /\ nameRule.kind = "VALUE_IN_LIST"
    /\ \E r \in Selected(1) :
          /\ sheet[r][1] = Str(S_Carol)
          /\ log[1].rows[r].valid = "no"
          /\ EmailSentCell(r) = Str(S_InvalidName)
          /\ sent[r] = 0

(***************************************************************************)
(* C5  Schema resilience: when a declared header label has no              *)
(* exactly-equal cell in the header row, the run writes no cell and        *)
(* dispatches no notification, whatever the data rows hold.                *)
(***************************************************************************)
C5_SchemaResilience ==
    (HeaderMissesLabel /\ log[1].schema # "none") =>
        /\ log[1].schema = "fail"
        /\ run[1].pc = "done"
        /\ NoRowTouched(1)
        /\ \A r \in RowNums : sent[r] = 0
        /\ lastModified = 0

\* the header has "notes" for "Notes", a data row is blank, and the run is over
C5_Witness ==
    /\ HeaderMissesLabel
    /\ log[1].schema = "fail" /\ runs[1] = MaxRuns
    /\ \E r \in 2..Len(sheet) : EmailSentCell(r) = Empty /\ sheet[r][1] = Str(S_AliceSp)

(***************************************************************************)
(* C6  Recency gate: with a readable modification timestamp the guarded    *)
(* run skips, writing no cell and dispatching nothing, if and only if the  *)
(* table was modified less than 10 minutes before now; otherwise it goes   *)
(* on exactly as the unconditional run does.                               *)
(***************************************************************************)
\* the last modification lies in the trailing window of 10 minutes
InTrailingWindow(g) == g.at - g.lastUpdated < 10

C6_RecencyGate ==
    (log[1].guard.seen /\ log[1].guard.readable) =>
        /\ (run[1].pc = "skipped") <=> InTrailingWindow(log[1].guard)
        /\ run[1].pc = "skipped" =>
               /\ log[1].schema = "none" /\ NoRowTouched(1)
               /\ lastModified = log[1].guard.lastUpdated
        /\ run[1].pc = "late" => run[1] = [IdleRun EXCEPT !.pc = "late"]

\* the second guarded run, 5 minutes after the first one stamped a row, skips
C6_Witness ==
    /\ run[1].pc = "skipped" /\ runs[1] = 2
    /\ log[1].guard.readable
    /\ log[1].guard.at - log[1].guard.lastUpdated = 5
    /\ \E r \in 2..Len(sheet) : sent[r] = 1 /\ EmailSentCell(r) = DateVal(10)

(***************************************************************************)
(* C7  Recency fail-open: when the modification timestamp cannot be read,  *)
(* the guard answers "not recent" and the guarded run goes on to process   *)
(* the rows.                                                               *)
(***************************************************************************)
C7_RecencyFailOpen ==
    (log[1].guard.seen /\ ~log[1].guard.readable) =>
        /\ run[1].pc # "skipped"
        /\ run[1].pc = "late" => run[1] = [IdleRun EXCEPT !.pc = "late"]

\* a guarded run that could not read the timestamp of a table modified 5
\* minutes earlier, and stamped a row
C7_Witness ==
    /\ log[1].guard.seen /\ ~log[1].guard.readable
    /\ log[1].guard.at - log[1].guard.lastUpdated = 5
    /\ run[1].pc = "done"
    /\ \E r \in Selected(1) : log[1].rows[r].writes = 1 /\ EmailSentCell(r).t = "date"

(***************************************************************************)
(* C8  Row isolation: within one run a throw in one selected row never     *)
(* keeps a later selected row from being processed; every selected row is  *)
(* validated, and one whose own dispatch and write did not throw ends the  *)
(* run marked (a timestamp when admissible).                               *)
(***************************************************************************)
C8_RowIsolation ==
    (run[1].pc = "done" /\ log[1].schema = "ok") =>
        \A r \in Selected(1) :
            /\ log[1].rows[r].valid # "none"
            /\ (log[1].rows[r].sendThrows = 0 /\ log[1].rows[r].writeThrows = 0) =>
                   IF log[1].rows[r].valid = "yes"
                   THEN EmailSentCell(r).t = "date" /\ log[1].rows[r].sends = 1
                   ELSE EmailSentCell(r) = Str(S_InvalidName)

\* the dispatch of the first selected row threw and a later row was notified
C8_Witness ==
    /\ run[1].pc = "done" /\ Len(log[1].selected) >= 2
    /\ log[1].rows[log[1].selected[1]].sendThrows = 1
    /\ \E i \in 2..Len(log[1].selected) :
          /\ log[1].rows[log[1].selected[i]].sends = 1
          /\ EmailSentCell(log[1].selected[i]).t = "date"

(***************************************************************************)
(* C9  Membership validation: under a list rule with a non-empty set, and  *)
(* under a range rule whose range resolves, a non-blank identity is        *)
(* admissible if and only if its trimmed text equals, case-sensitively,    *)
(* the trimmed text of some member.  Non-blank is the test of isValidName  *)
(* itself (line 162); the rule is one whose kind and criteria can be read. *)
(***************************************************************************)
\* the text between the first and the last non-whitespace character
Stripped(s) ==
    LET ink == {i \in 1..Len(s) : s[i] \notin {" ", "\t", "\n"}}
    IN IF ink = {} THEN <<>>
       ELSE SubSeq(s, CHOOSE i \in ink : \A j \in ink : i <= j,
                      CHOOSE i \in ink : \A j \in ink : j <= i)

NonBlankIdentity(v) == ~Falsy(v) /\ Stripped(toString(v)) # <<>>

IsMember(v, vals) ==
    \E i \in 1..Len(vals) : Stripped(toString(vals[i])) = Stripped(toString(v))

C10_FailOpen ==
    (/\ vOut \in {"true", "false"}
     /\ NonBlankIdentity(vIn.nameValue)
     /\ \/ vIn.validation = Null
        \/ vIn.critThrows
        \/ vIn.validation.kind = "VALUE_IN_LIST" /\
               (vIn.validation.cv # "present" \/ vIn.validation.vals = <<>>)
        \/ vIn.validation.kind \notin {"VALUE_IN_LIST", "VALUE_IN_RANGE"}
        \/ vIn.validation.kind = "VALUE_IN_RANGE" /\ vIn.rangeThrows)
    => vOut = "true"

(***************************************************************************)
(* C11  An empty or whitespace-only identity is inadmissible under every   *)
(* state of the rule (none, list, range, unknown kind, one whose reading   *)
(* throws), and with no rule every identity value that is not empty or     *)
(* whitespace-only is admissible.  The first half holds; the second fails  *)
(* for the number 0 and the boolean false, which line 162 takes for blank. *)
(***************************************************************************)
C11_BlankIffInadmissible ==
    vOut \in {"true", "false"} =>
        /\ OnlyWhitespace(vIn.nameValue) => vOut = "false"
        /\ (vIn.validation = Null /\ ~OnlyWhitespace(vIn.nameValue)) => vOut = "true"

(***************************************************************************)
(* C12  Crash safety: when a run is ended between two of its steps, every  *)
(* row it already wrote is correctly marked, the "Email sent" cell of      *)
(* every other row is as the run read it, and the run that follows sends   *)
(* no second notification to a row the ended run notified.  The first two  *)
(* hold; the last fails when the run is ended between a row's dispatch     *)
(* and its cell write: the row is still blank and is notified again.       *)
(***************************************************************************)
\* the "Email sent" cell of row r in a table as a run read it
EmailSentCellIn(values, r) ==
    values[r][CHOOSE c \in 1..Len(values[1]) : values[1][c] = Str(S_EmailSent)]

\* the rows a run cut short had written are marked for what was done to them
C12_WrittenRowsMarked ==
    (log[1].interrupted /\ log[1].schema = "ok") =>
        \A r \in 2..Len(sheet) :
            log[1].rows[r].writes > 0 =>
                /\ EmailSentCell(r) = log[1].rows[r].wrote
                /\ \/ /\ EmailSentCell(r).t = "date"
                      /\ log[1].rows[r].valid = "yes" /\ log[1].rows[r].sends = 1
                   \/ /\ EmailSentCell(r) = Str(S_InvalidName)
                      /\ log[1].rows[r].valid = "no" /\ log[1].rows[r].sends = 0

\* the rows a run cut short had not written are as it read them
C12_OtherRowsUntouched ==
    (log[1].interrupted /\ log[1].schema = "ok") =>
        \A r \in 2..Len(sheet) :
            log[1].rows[r].writes = 0 =>
                EmailSentCell(r) = EmailSentCellIn(log[1].before, r)

\* the run after one cut short sends nothing to the rows that one notified
C12_NoSecondNotification ==
    prev.interrupted => \A r \in prev.notified : log[1].rows[r].sends = 0

\* C12 as stated: the three together, in every state a run cut short leaves
\* and every state of the run that follows it
C12_CrashSafety ==
    /\ C12_WrittenRowsMarked
    /\ C12_OtherRowsUntouched
    /\ C12_NoSecondNotification

(***************************************************************************)
(* C13  Row selection: the rows a run processes are exactly the data rows  *)
(* (header excluded) whose "Email sent" cell is empty or whitespace-only,  *)
(* in top-to-bottom order under their 1-based sheet row numbers; a row     *)
(* whose cell holds anything else is excluded.  The code also selects a    *)
(* row whose cell holds the number 0 or the boolean false (line 249).      *)
(***************************************************************************)
C13_RowSelection ==
    log[1].schema = "ok" =>
        LET blank == {r \in 2..Len(log[1].before) :
                         OnlyWhitespace(EmailSentCellIn(log[1].before, r))}
            sel == log[1].selected
        IN /\ Len(sel) = Cardinality(blank)
           /\ \A i \in 1..Len(sel) : sel[i] \in blank
           /\ \A i \in 1..Len(sel) : \A j \in 1..Len(sel) : i < j => sel[i] < sel[j]

(***************************************************************************)
(* C14  In every run that passes schema resolution each data row ends the  *)
(* run with exactly one outcome of Notified, MarkedInvalid and Skipped:    *)
(* every selected row is visited exactly once and leaves the run Notified  *)
(* or MarkedInvalid.  As stated it fails: a selected row whose dispatch or *)
(* cell write threw leaves the run with none of the three.                 *)
(***************************************************************************)
\* not selected, not visited, its cell as the run read it
Skipped(r) ==
    /\ r \notin Selected(1)
    /\ log[1].rows[r] = NoRowLog
    /\ EmailSentCell(r) = EmailSentCellIn(log[1].before, r)

\* selected, accepted, notified once and stamped
Notified(r) ==
    /\ r \in Selected(1)
    /\ log[1].rows[r].valid = "yes"
    /\ log[1].rows[r].sends = 1 /\ log[1].rows[r].sendThrows = 0
    /\ log[1].rows[r].writes = 1 /\ log[1].rows[r].writeThrows = 0
    /\ EmailSentCell(r).t = "date"

\* selected, rejected, marked with the sentinel and not notified
MarkedInvalid(r) ==
    /\ r \in Selected(1)
    /\ log[1].rows[r].valid = "no"
    /\ log[1].rows[r].sends = 0 /\ log[1].rows[r].sendThrows = 0
    /\ log[1].rows[r].writes = 1 /\ log[1].rows[r].writeThrows = 0
    /\ EmailSentCell(r) = Str(S_InvalidName)

\* selected, visited once, one of its calls threw, its cell as the run read it
LeftUnprocessed(r) ==
    /\ r \in Selected(1)
    /\ log[1].rows[r].valid # "none"
    /\ log[1].rows[r].sendThrows + log[1].rows[r].writeThrows = 1
    /\ log[1].rows[r].sends + log[1].rows[r].sendThrows <= 1
    /\ log[1].rows[r].writes = 0
    /\ EmailSentCell(r) = EmailSentCellIn(log[1].before, r)

RunEnded == run[1].pc = "done" /\ log[1].schema = "ok"

\* C14 as stated
C14_OneOutcomePerRow ==
    RunEnded =>
        \A r \in 2..Len(sheet) :
            /\ Skipped(r) \/ Notified(r) \/ MarkedInvalid(r)
            /\ r \in Selected(1) => Notified(r) \/ MarkedInvalid(r)

\* C14 as amended: a row none of whose calls threw ends the run Skipped,
\* Notified or MarkedInvalid (a selected one Notified or MarkedInvalid, after
\* one visit); a row whose dispatch or cell write threw was visited once and
\* is left unprocessed, its cell as the run read it.
C14_OneOutcomeUnlessThrows ==
    RunEnded =>
        \A r \in 2..Len(sheet) :
            IF log[1].rows[r].sendThrows + log[1].rows[r].writeThrows = 0
            THEN /\ Skipped(r) \/ Notified(r) \/ MarkedInvalid(r)
                 /\ r \in Selected(1) => Notified(r) \/ MarkedInvalid(r)
            ELSE LeftUnprocessed(r)

\* a run ended with one row notified and another left unprocessed by a throw
C14_Witness ==
    /\ RunEnded
    /\ \E r \in 2..Len(sheet) : Notified(r)
    /\ \E r \in 2..Len(sheet) : LeftUnprocessed(r)

(***************************************************************************)
(* C15  Within a single run every row gets at most one cell write and at   *)
(* most one notification dispatch, and a row that gets the sentinel        *)
(* written gets no dispatch in that run.  Attempts that threw count too.   *)
(***************************************************************************)
C15_OneWriteOneDispatch ==
    \A r \in RowNums :
        /\ log[1].rows[r].writes + log[1].rows[r].writeThrows <= 1
        /\ log[1].rows[r].sends + log[1].rows[r].sendThrows <= 1
        /\ log[1].rows[r].wrote = Str(S_InvalidName) =>
               log[1].rows[r].sends + log[1].rows[r].sendThrows = 0

\* a run ended having written the sentinel to one row and notified another
C15_Witness ==
    /\ RunEnded
    /\ \E r \in RowNums : log[1].rows[r].wrote = Str(S_InvalidName)
    /\ \E r \in RowNums : log[1].rows[r].sends = 1 /\ log[1].rows[r].writes = 1

(***************************************************************************)
(* C16  Row error recovery: whenever validating, notifying or writing a    *)
(* selected row fails during a run, the row's "Email sent" cell is blank,  *)
(* as the run read it, at the end of the run, and the next run that reads  *)
(* the table selects the row again.                                        *)
(***************************************************************************)
C16_FailedRowStaysBlank ==
    /\ RunEnded =>
          \A r \in 2..Len(sheet) :
              log[1].rows[r].sendThrows + log[1].rows[r].writeThrows > 0 =>
                  /\ r \in Selected(1)
                  /\ OnlyWhitespace(EmailSentCell(r))
                  /\ EmailSentCell(r) = EmailSentCellIn(log[1].before, r)
    /\ (prev.ran /\ log[1].schema = "ok") => prev.failed \subseteq Selected(1)

\* a row whose cell write threw after its email went out is selected by the
\* run that follows
C16_Witness ==
    /\ prev.ran /\ log[1].schema = "ok"
    /\ \E r \in prev.failed : r \in prev.notified /\ r \in Selected(1)

(***************************************************************************)
(* C17  Frame, no transition back: across sequential runs a step changes   *)
(* only the "Email sent" cell of a data row that was blank in the run's    *)
(* snapshot; every cell of another column, the header row, the number of   *)
(* rows, and every "Email sent" cell that holds a timestamp, the sentinel  *)
(* or another mark stay as they are, so a notified or invalid row never    *)
(* changes state.  Blank is what the selection takes for blank: empty,     *)
(* whitespace-only, and the values 0 and false of C13.                     *)
(***************************************************************************)
BlankCell(v) == OnlyWhitespace(v) \/ v = Num(0) \/ v = Bool(FALSE)

C18_StampOnlyAfterDispatch ==
    /\ \A r \in RowNums :
          /\ log[1].rows[r].wrote.t = "date" =>
                 log[1].rows[r].sends >= 1 /\ sent[r] >= 1
          /\ log[1].rows[r].sendThrows > 0 =>
                 /\ log[1].rows[r].writes + log[1].rows[r].writeThrows = 0
                 /\ log[1].rows[r].wrote = Undefined
    /\ run[1].pc = "stamp" =>
          /\ log[1].rows[RowInfo(1).rowNumber].sends = 1
          /\ log[1].rows[RowInfo(1).rowNumber].sendThrows = 0

\* a run ended having stamped a notified row and left alone a row whose
\* dispatch threw
C18_Witness ==
    /\ RunEnded
    /\ \E r \in RowNums :
          log[1].rows[r].wrote.t = "date" /\ log[1].rows[r].sends = 1
    /\ \E r \in RowNums :
          log[1].rows[r].sendThrows = 1 /\ OnlyWhitespace(EmailSentCell(r))

(***************************************************************************)
(* C19  Eventual resolution: when unconditional runs are triggered again   *)
(* and again, schema resolution succeeds, and the dispatch and the cell    *)
(* write of a row succeed at last, every row with a blank "Email sent"     *)
(* cell comes to carry a mark (a timestamp when its name was accepted, the *)
(* sentinel when it was refused), keeps it for ever, and is not selected   *)
(* by any run that reads the table afterwards.                             *)
(***************************************************************************)
InTable(r) == r \in 2..Len(sheet)

Marked(r) ==
    /\ InTable(r)
    /\ EmailSentCell(r).t = "date" \/ EmailSentCell(r) = Str(S_InvalidName)
    /\ nameRule = Null =>
          (EmailSentCell(r).t = "date" <=> ~OnlyWhitespace(sheet[r][1]))

\* a run that read the table when row r was marked did not select it
NotReselected(r) ==
    (log[1].schema = "ok" /\ ~OnlyWhitespace(EmailSentCellIn(log[1].before, r)))
        => r \notin Selected(1)

C19_EventualResolution ==
    \A r \in LiveRowNums :
        (InTable(r) /\ OnlyWhitespace(EmailSentCell(r)))
            ~> [](Marked(r) /\ NotReselected(r))

\* a row was notified twice before its stamp was written, and a run that read
\* the table after that did not select it
C19_Witness ==
    \E r \in LiveRowNums :
        /\ InTable(r) /\ sent[r] >= 2 /\ Marked(r)
        /\ log[1].schema = "ok" /\ log[1].before = sheet /\ r \notin Selected(1)

(***************************************************************************)
(* C20  Every notification a run dispatches is addressed to the text of    *)
(* the row's name cell followed by the fixed domain, and that name is not  *)
(* blank: processSheet sends only after isValidName accepted the name, so  *)
(* the fallback 'Member' of sendLateSheetEmail is never the addressee.     *)
(***************************************************************************)
\* the name cell of sheet row r, found by its header label
NameCell(r) ==
    sheet[r][CHOOSE c \in 1..Len(sheet[1]) : sheet[1][c] = Str(S_Name)]

C20_AddressedToName ==
    \A m \in outbox :
        /\ m.name = NameCell(m.row)
        /\ NonBlankIdentity(m.name)
        /\ m.to = toString(m.name) \o S_AtDomain
        /\ m.to # S_Member \o S_AtDomain

\* the email of a row named " Alice " went to " Alice @directactioneverywhere.com"
C20_Witness ==
    \E m \in outbox :
        /\ m.name = Str(S_AliceSp)
        /\ m.to = S_AliceSp \o S_AtDomain
        /\ sent[m.row] >= 1

====
